---- MODULE Spec2Model ----
(***************************************************************************)
(* Model of powersimdata/data_access/data_access.py: the remote backend    *)
(* SSHDataAccess (connection manager, transfer engine, checksum-guarded    *)
(* push) and the local backend LocalDataAccess.                            *)
(***************************************************************************)
EXTENDS Integers, Sequences, FiniteSets, TLC

\* ---------------------------------------------------------------- bounds
\* Largest value of the wall clock that is explored.
MaxTime == 12
\* Longest time a failing client.connect() is observed to take.
MaxConnectTime == 1
\* Number of distinct file contents.
MaxContent == 2

\* ------------------------------------------------------ program constants
\* self._retry_after = 5
RetryAfter == 5
\* SSHDataAccess._last_attempt = 0
InitialLastAttempt == 0
\* time.time() when the program starts: seconds since the epoch, far above
\* the cool-down, so that the first attempt is never suppressed.
StartTime == 6

\* ------------------------------------------------------------ the objects
\* Operating-system processes (each has its own class attribute
\* SSHDataAccess._last_attempt and its own local staging root).
Procs == {1, 2}
\* SSHDataAccess instances; "a" and "b" live in process 1, "c" in process 2.
Insts == {"a", "b", "c"}
ProcOf == [i \in Insts |-> IF i = "c" THEN 2 ELSE 1]

Contents == 1..MaxContent
NoFile == 0

\* Names of the files a caller stages in its local staging root.
LocalNames == {"f"}
\* Values given for change_name_to; "None" is the default argument.
ChangeNames == {"None"}
\* Values given for to_dir / from_dir / relative_path directories.
ToDirs == {<<>>, <<"d">>}

\* server_setup.DATA_ROOT_DIR, the root of the remote store.
root == <<"root">>

\* A file name is a string with optional suffixes: f"{new_name}.temp" is
\* Suffixed(name, "temp"); the backup `mv -b` writes is Suffixed(name, "~").
Name(base) == <<base>>
Suffixed(name, suffix) == Append(name, suffix)

\* posixpath.join(a, b, name): a path is its directory segments and the
\* name of its last segment.
PosixJoin(dir, sub, name) == [dir |-> dir \o sub, name |-> name]

\* A file-name argument: a bare name has no directory part.
FileArgs == {[dir |-> <<>>, name |-> Name(n)] : n \in LocalNames}
              \cup {[dir |-> <<"d">>, name |-> Name("f")]}
\* os.path.dirname(filename)
Dirname(arg) == arg.dir

\* A digest that does not depend on the content.
Sha1OfNothing(content) == 1000

\* Output line of `sha1sum path`, stripped: the digest and the path.
Sha1(content) == 1000 + content
Sha1sumLine(content, path) == <<Sha1(content), path>>
\* $(sha1sum path) when the path does not exist: empty standard output.
EmptyOutput == <<>>
\* LocalDataAccess.checksum's placeholder, a string that is no sha1sum line.
DummyValue == <<"dummy_value">>

VARIABLES
  now,            \* time.time()
  _last_attempt,  \* SSHDataAccess._last_attempt, one per OS process
  _ssh,           \* self._ssh of each instance: "None", "open" or "closed"
  fs,             \* files of the remote store: path -> content
  local,          \* files of each process's local staging root: name -> content
  lock,           \* holder of the flock on root/scenario.lockfile, 0 when free
  pc,             \* position of each process in its current call
  op,             \* locals of the call each process is in
  result,         \* the last call that ended: its process and how it ended
  held,           \* the last value checksum() returned to each process
  waitMsg,        \* seconds named in the last connection error message, or 0
  handshakes,     \* history: number of client.connect() calls per instance
  failedBy,       \* history: the instance whose connect failed last, per process
  failedAt,       \* history: the time of that failure, -1 when there is none
  commits,        \* history: renames committed while sameOriginal, up to 2
  sameOriginal,   \* history: every push so far used the checksum of the
                  \* initial content of root/f and staged another content
  modified,       \* history: since held[Caller] was obtained the path it
                  \* names was 0: not written, 1: rewritten with the
                  \* content it had, 2: given another content
  atCheck,        \* history: the content that path had when held[Caller]
                  \* was obtained
  lfs,            \* LocalDataAccess: files of the machine, path -> content
  ldirs,          \* LocalDataAccess: directories of the machine
  pending,        \* subprocesses started with Popen and not yet run
  lresult         \* LocalDataAccess: how the last call ended

connVars == <<now, _last_attempt, _ssh, waitMsg, handshakes, failedBy, failedAt>>
fileVars == <<fs, local, lock, held>>
callVars == <<pc, op, result>>
histVars == <<commits, sameOriginal, modified, atCheck>>
lbVars == <<lfs, ldirs, pending, lresult>>
vars == <<now, _last_attempt, _ssh, fs, local, lock, pc, op, result, held,
          waitMsg, handshakes, failedBy, failedAt, commits, sameOriginal,
          modified, atCheck,
          lfs, ldirs, pending, lresult>>

Exists(path) == path \in DOMAIN fs
ContentAt(path) == IF path \in DOMAIN fs THEN fs[path] ELSE NoFile
Write(files, path, content) == (path :> content) @@ files
Delete(files, path) == [q \in DOMAIN files \ {path} |-> files[q]]

NoResult == [proc |-> 0, inst |-> "none", how |-> "none"]

\* Locals of a call that is not in progress.
NoPath == [dir |-> <<>>, name |-> <<>>]
NoOp == [kind |-> "none", inst |-> "a", file |-> NoPath, to_path |-> NoPath,
         original |-> NoPath, checksum |-> <<>>, staged |-> NoFile,
         curr |-> <<>>, errors |-> 0, renamed |-> FALSE,
         prior |-> NoFile, tmp |-> NoFile,
         filename |-> <<>>, output |-> 0, should_exist |-> TRUE,
         full_path |-> <<>>,
         last |-> 0, delta |-> 0, bar_n |-> 0, bar_total |-> 0]

\* The file the store holds at the start, and its content.
OriginalPath == PosixJoin(root, <<>>, Name("f"))
InitialContent == 1

\* os.path.join(self.local_root, sub, name), relative to the staging root
LocalJoin(sub, name) == PosixJoin(<<>>, sub, name)
LocalPaths == {LocalJoin(d, Name(n)) : d \in ToDirs, n \in LocalNames}

\* The store, the staging roots and the callers at the start.
InitStore ==
  /\ fs = (OriginalPath :> InitialContent)
  /\ local = [p \in Procs |-> [q \in LocalPaths |-> NoFile]]
  /\ lock = 0
  /\ pc = [p \in Procs |-> "idle"]
  /\ op = [p \in Procs |-> NoOp]
  /\ result = NoResult
  /\ held = [p \in Procs |-> EmptyOutput]
  /\ commits = 0
  /\ sameOriginal = TRUE
  /\ modified = 0
  /\ atCheck = NoFile

\* server_setup.LOCAL_DIR and the local backend's root on its machine
LOCAL_DIR == <<"LOCAL_DIR">>
lroot == <<"lroot">>

\* LocalDataAccess.__init__: an empty store and no subprocess
InitLocal ==
  /\ lfs = << >>
  /\ ldirs = {LOCAL_DIR, lroot}
  /\ pending = {}
  /\ lresult = "none"

\* The class attribute and the clock at the start.
InitClock ==
  /\ now = StartTime
  /\ _last_attempt = [p \in Procs |-> InitialLastAttempt]
  /\ waitMsg = 0
  /\ failedBy = [p \in Procs |-> "none"]
  /\ failedAt = [p \in Procs |-> -1]

\* SSHDataAccess.__init__ for every instance: self._ssh = None
Init ==
  /\ InitClock
  /\ _ssh = [i \in Insts |-> "None"]
  /\ handshakes = [i \in Insts |-> 0]
  /\ InitStore
  /\ InitLocal

\* ------------------------------------------------------ connection manager
\* A test without a cool-down.
should_attempt_at_once(i) == now - _last_attempt[ProcOf[i]] >= 0
\* A test against a failure time every instance keeps for itself.
should_attempt_own(i) ==
  \/ failedBy[ProcOf[i]] # i
  \/ now - _last_attempt[ProcOf[i]] > RetryAfter

\* should_attempt = time.time() - SSHDataAccess._last_attempt > self._retry_after
should_attempt(i) == now - _last_attempt[ProcOf[i]] > RetryAfter

\* A property that keeps no client object.
CachedNever(i) == FALSE

\* `if self._ssh is None` does not hold: a client object is cached
Cached(i) == _ssh[i] # "None"

\* A close() that forgets the client object.
AfterCloseReset(i) == "None"

\* self._ssh after self.ssh.close(): the attribute keeps the closed client
AfterClose(i) == "closed"

\* A message that names what is left of the cool-down.
MessageRemaining(i) == RetryAfter - (now - _last_attempt[ProcOf[i]])

\* The number the connection error message names:
\* f"Could not connect to server, will try again after {self._retry_after} seconds"
MessageSeconds(i) == RetryAfter

\* A failure branch that leaves the class attribute as it was.
LastAttemptKept(p) == _last_attempt[p]

\* except: SSHDataAccess._last_attempt = time.time()
LastAttemptAfterFailure(p) == now'

\* The property SSHDataAccess.ssh.  got: a client object is returned (FALSE:
\* IOError is raised); s: the value of self._ssh afterwards.
Session(i, got, s) ==
  LET p == ProcOf[i] IN
  IF Cached(i)
  THEN /\ got /\ s = _ssh[i]
       /\ UNCHANGED <<now, _last_attempt, waitMsg, handshakes, failedBy, failedAt>>
  ELSE IF should_attempt(i)
  THEN \/ \* _setup_server_connection() returns: client.connect succeeded
          /\ got /\ s = "open"
          /\ handshakes' = [handshakes EXCEPT ![i] = @ + 1]
          /\ UNCHANGED <<now, _last_attempt, waitMsg, failedBy, failedAt>>
       \/ \* it raises after d seconds: _last_attempt = time.time(); raise IOError
          /\ ~got /\ s = "None"
          /\ \E d \in 0..MaxConnectTime :
               /\ now + d <= MaxTime
               /\ now' = now + d
          /\ handshakes' = [handshakes EXCEPT ![i] = @ + 1]
          /\ _last_attempt' = [_last_attempt EXCEPT ![p] = LastAttemptAfterFailure(p)]
          /\ failedBy' = [failedBy EXCEPT ![p] = i]
          /\ failedAt' = [failedAt EXCEPT ![p] = now']
          /\ waitMsg' = MessageSeconds(i)
  ELSE /\ ~got /\ s = "None"
       /\ waitMsg' = MessageSeconds(i)
       /\ UNCHANGED <<now, _last_attempt, handshakes, failedBy, failedAt>>

SshStates == {"None", "open", "closed"}

\* The call made on instance i returns or raises: r names the outcome.
Finish(i, r) ==
  /\ pc' = [pc EXCEPT ![ProcOf[i]] = "idle"]
  /\ op' = [op EXCEPT ![ProcOf[i]] = NoOp]
  /\ result' = [proc |-> ProcOf[i], inst |-> i, how |-> r]

\* A call that goes on as if it had a session.
NoSessionIgnored(i, got) == "ok"

\* How a call ends when the session is missing or no longer active: the
\* IOError of the property ssh, raised after a failed connect or without
\* an attempt, or paramiko's error on a closed client.
NoSessionResult(i, got) ==
  IF got THEN "inactive"
  ELSE IF should_attempt(i) THEN "connect failed" ELSE "retry suppressed"
ConnectionErrors == {"connect failed", "retry suppressed"}

\* The process whose checksum-then-push round trips are followed.
Caller == 1

\* The store after a write (content) or a removal (NoFile) at path, seen
\* by the caller when it holds a checksum of that path.
MarkWritten(path, content) ==
  modified' = IF Len(held[Caller]) = 2 /\ held[Caller][2] = path
              THEN (IF Exists(path) /\ fs[path] = content
                    THEN (IF modified = 0 THEN 1 ELSE modified)
                    ELSE 2)
              ELSE modified

\* time passes
Tick ==
  /\ now < MaxTime
  /\ now' = now + 1
  /\ UNCHANGED <<_last_attempt, _ssh, waitMsg, handshakes, failedBy, failedAt>>
  /\ UNCHANGED <<fileVars, callVars, histVars>>
  /\ UNCHANGED lbVars

\* SSHDataAccess.close: self.ssh.close()
Close(i) ==
  LET p == ProcOf[i] IN
  /\ pc[p] = "idle"
  /\ \E got \in BOOLEAN, s \in SshStates :
       /\ Session(i, got, s)
       /\ IF got
          THEN /\ _ssh' = [_ssh EXCEPT ![i] = AfterClose(i)]
               /\ Finish(i, "ok")
          ELSE /\ _ssh' = [_ssh EXCEPT ![i] = s]
               /\ Finish(i, NoSessionResult(i, got))
  /\ UNCHANGED <<fileVars, histVars>>
  /\ UNCHANGED lbVars

\* DataAccess.makedir through SSHDataAccess.execute_command: the command
\* `mkdir -p` is issued on the session (directories are not part of fs).
MakeDir(i, dir) ==
  LET p == ProcOf[i] IN
  /\ pc[p] = "idle"
  /\ \E got \in BOOLEAN, s \in SshStates :
       /\ Session(i, got, s)
       /\ _ssh' = [_ssh EXCEPT ![i] = s]
       /\ IF got /\ s = "open"
          THEN Finish(i, "ok")
          ELSE Finish(i, NoSessionResult(i, got))
  /\ UNCHANGED <<fileVars, histVars>>
  /\ UNCHANGED lbVars

\* DataAccess.remove through SSHDataAccess.execute_command: `rm path`
Remove(i, path) ==
  LET p == ProcOf[i] IN
  /\ pc[p] = "idle"
  /\ \E got \in BOOLEAN, s \in SshStates :
       /\ Session(i, got, s)
       /\ _ssh' = [_ssh EXCEPT ![i] = s]
       /\ IF got /\ s = "open"
          THEN /\ fs' = IF Exists(path) THEN Delete(fs, path) ELSE fs
               /\ MarkWritten(path, NoFile)
               /\ sameOriginal' = FALSE
               /\ commits' = 0
               /\ Finish(i, "ok")
          ELSE /\ UNCHANGED <<fs, modified, sameOriginal, commits>>
               /\ Finish(i, NoSessionResult(i, got))
  /\ UNCHANGED <<local, lock, held, atCheck>>
  /\ UNCHANGED lbVars

\* ------------------------------------------------- path & existence guard
\* len(stderr.readlines()) of CommandBuilder.list(filepath): `ls` writes an
\* error line exactly when the path does not exist.
ListErrors(path) == IF Exists(path) THEN 0 ELSE 1

\* The check with the two cases of its comparison exchanged.
check_file_exists_exchanged(n, should_exist) ==
  LET compare == IF should_exist THEN n = 0 ELSE n # 0
  IN IF compare
     THEN (IF should_exist THEN "not found" ELSE "already exists")
     ELSE "pass"

\* A check that only ever looks for missing files.
check_file_exists_when_expected(n, should_exist) ==
  IF should_exist /\ n # 0 THEN "not found" ELSE "pass"

\* DataAccess._check_file_exists, given n = len(stderr.readlines()):
\* "pass", or the message of the OSError.
check_file_exists(n, should_exist) ==
  LET compare == IF should_exist THEN n # 0 ELSE n = 0
  IN IF compare
     THEN (IF should_exist THEN "not found" ELSE "already exists")
     ELSE "pass"

\* DataAccess._check_filename: TRUE when ValueError is raised.
check_filename(arg) == Len(Dirname(arg)) # 0

\* ---------------------------------------------------------------- checksum
RemoteNames == {Name(n) : n \in LocalNames \cup (ChangeNames \ {"None"})}

\* SSHDataAccess.checksum up to _check_file_exists(full_path)
ChecksumBegin(i, name) ==
  LET p == ProcOf[i]
      full_path == PosixJoin(root, <<>>, name)
  IN
  /\ pc[p] = "idle"
  /\ \E got \in BOOLEAN, s \in SshStates :
       /\ Session(i, got, s)
       /\ _ssh' = [_ssh EXCEPT ![i] = s]
       /\ IF ~(got /\ s = "open")
          THEN Finish(i, NoSessionResult(i, got))
          ELSE IF check_file_exists(ListErrors(full_path), TRUE) # "pass"
          THEN Finish(i, "not found")
          ELSE /\ pc' = [pc EXCEPT ![p] = "sha1sum"]
               /\ op' = [op EXCEPT ![p] =
                           [NoOp EXCEPT !.kind = "checksum", !.inst = i,
                                        !.original = full_path]]
               /\ UNCHANGED result
  /\ UNCHANGED <<fileVars, histVars>>
  /\ UNCHANGED lbVars

\* SSHDataAccess.checksum from `sha1sum {full_path}` to the return:
\* lines[0].strip(), an IndexError when the file has gone meanwhile.
ChecksumReturn(p) ==
  LET full_path == op[p].original IN
  /\ pc[p] = "sha1sum"
  /\ op[p].kind = "checksum"
  /\ IF Exists(full_path)
     THEN /\ held' = [held EXCEPT ![p] = Sha1sumLine(fs[full_path], full_path)]
          /\ modified' = IF p = Caller THEN 0 ELSE modified
          /\ atCheck' = IF p = Caller THEN fs[full_path] ELSE atCheck
          /\ Finish(op[p].inst, "ok")
     ELSE /\ UNCHANGED <<held, modified, atCheck>>
          /\ Finish(op[p].inst, "index error")
  /\ UNCHANGED <<connVars, fs, local, lock, commits, sameOriginal>>
  /\ UNCHANGED lbVars

\* ------------------------------------------------------- transfer engine
\* The caller writes a file into its local staging root.
Stage(p, name, content) ==
  /\ pc[p] = "idle"
  /\ local[p][LocalJoin(<<>>, name)] # content
  /\ local' = [local EXCEPT ![p][LocalJoin(<<>>, name)] = content]
  /\ UNCHANGED <<connVars, fs, lock, held, callVars, histVars>>
  /\ UNCHANGED lbVars

\* SSHDataAccess.copy_from up to _check_file_exists(from_path, should_exist=True)
CopyFromBegin(i, file_name, from_dir) ==
  LET p == ProcOf[i]
      from_path == PosixJoin(root, from_dir, file_name.name)
      to_path == LocalJoin(from_dir, file_name.name)
  IN
  /\ pc[p] = "idle"
  /\ IF check_filename(file_name)
     THEN /\ Finish(i, "invalid name")
          /\ UNCHANGED connVars
     ELSE \E got \in BOOLEAN, s \in SshStates :
            /\ Session(i, got, s)
            /\ _ssh' = [_ssh EXCEPT ![i] = s]
            /\ IF ~(got /\ s = "open")
               THEN Finish(i, NoSessionResult(i, got))
               ELSE IF check_file_exists(ListErrors(from_path), TRUE) # "pass"
               THEN Finish(i, "not found")
               ELSE /\ pc' = [pc EXCEPT ![p] = "get"]
                    /\ op' = [op EXCEPT ![p] =
                                [NoOp EXCEPT !.kind = "copy_from", !.inst = i,
                                             !.file = to_path,
                                             !.original = from_path,
                                             !.prior = local[p][to_path]]]
                    /\ UNCHANGED result
  /\ UNCHANGED <<fileVars, histVars>>
  /\ UNCHANGED lbVars

\* A file that holds only part of the bytes written to it.
Partial == MaxContent + 1

\* SSHDataAccess.copy_from: _, tmp_path = mkstemp() and
\* sftp.get(from_path, tmp_path), which raises when the file has gone.
CopyFromGet(p) ==
  /\ pc[p] = "get"
  /\ IF Exists(op[p].original)
     THEN /\ op' = [op EXCEPT ![p].tmp = fs[op[p].original]]
          /\ pc' = [pc EXCEPT ![p] = "move"]
          /\ UNCHANGED result
     ELSE Finish(op[p].inst, "not found")
  /\ UNCHANGED <<connVars, fileVars, histVars>>
  /\ UNCHANGED lbVars

\* sftp.get is interrupted or the transfer fails: the call raises with
\* part of the bytes in tmp_path.
CopyFromGetFails(p) ==
  /\ pc[p] = "get"
  /\ Finish(op[p].inst, "download failed")
  /\ UNCHANGED <<connVars, fileVars, histVars>>
  /\ UNCHANGED lbVars

\* shutil.move(tmp_path, to_path) when tmp_path (the system's temporary
\* directory) and to_path are on one filesystem: os.rename
CopyFromMove(p) ==
  /\ pc[p] = "move"
  /\ local' = [local EXCEPT ![p][op[p].file] = op[p].tmp]
  /\ Finish(op[p].inst, "ok")
  /\ UNCHANGED <<connVars, fs, lock, held, histVars>>
  /\ UNCHANGED lbVars

\* shutil.move when they are on different filesystems: os.rename is
\* refused and the file is copied, to_path being opened and written.
CopyFromMoveAcross(p) ==
  /\ pc[p] = "move"
  /\ local' = [local EXCEPT ![p][op[p].file] = Partial]
  /\ pc' = [pc EXCEPT ![p] = "copying"]
  /\ UNCHANGED <<op, result>>
  /\ UNCHANGED <<connVars, fs, lock, held, histVars>>
  /\ UNCHANGED lbVars

\* The copy of shutil.move completes.
CopyFromCopy(p) ==
  /\ pc[p] = "copying"
  /\ local' = [local EXCEPT ![p][op[p].file] = op[p].tmp]
  /\ Finish(op[p].inst, "ok")
  /\ UNCHANGED <<connVars, fs, lock, held, histVars>>
  /\ UNCHANGED lbVars

\* The copy of shutil.move is interrupted or fails: the call raises.
CopyFromCopyFails(p) ==
  /\ pc[p] = "copying"
  /\ Finish(op[p].inst, "move failed")
  /\ UNCHANGED <<connVars, fileVars, histVars>>
  /\ UNCHANGED lbVars

\* SSHDataAccess.move_to up to _check_file_exists(to_path, should_exist=False):
\* the local checks, then self.makedir(to_dir) and the check, both on the
\* session (directories are not part of fs).
\* kind "push": the call is the one push makes, with change_name_to=backup;
\* checksum and original are then the arguments push goes on with.
MoveToBegin(i, file_name, to_dir, to_name, kind, checksum, original) ==
  LET p == ProcOf[i]
      from_path == LocalJoin(<<>>, file_name.name)
      to_path == PosixJoin(root, to_dir, to_name)
  IN
  /\ pc[p] = "idle"
  /\ IF check_filename(file_name)
     THEN /\ Finish(i, "invalid name")
          /\ UNCHANGED connVars
     ELSE IF local[p][from_path] = NoFile
     THEN /\ Finish(i, "not found locally")
          /\ UNCHANGED connVars
     ELSE \E got \in BOOLEAN, s \in SshStates :
            /\ Session(i, got, s)
            /\ _ssh' = [_ssh EXCEPT ![i] = s]
            /\ IF ~(got /\ s = "open")
               THEN Finish(i, NoSessionResult(i, got))
               ELSE IF check_file_exists(ListErrors(to_path), FALSE) # "pass"
               THEN Finish(i, "already exists")
               ELSE /\ pc' = [pc EXCEPT ![p] = "put"]
                    /\ op' = [op EXCEPT ![p] =
                                [NoOp EXCEPT !.kind = kind, !.inst = i,
                                             !.file = from_path,
                                             !.to_path = to_path,
                                             !.original = original,
                                             !.checksum = checksum,
                                             !.staged = local[p][from_path],
                                             !.prior = ContentAt(original)]]
                    /\ UNCHANGED result
  /\ UNCHANGED <<fileVars, modified, atCheck>>
  /\ UNCHANGED lbVars

\* SSHDataAccess.move_to(file_name, to_dir, change_name_to)
MoveTo(i, file_name, to_dir, change_name_to) ==
  /\ MoveToBegin(i, file_name, to_dir,
                 IF change_name_to = "None" THEN file_name.name
                 ELSE Name(change_name_to),
                 "move_to", EmptyOutput, NoPath)
  /\ sameOriginal' = FALSE
  /\ commits' = 0

\* The pushes of the no-lost-update scenario: root/f, the checksum of its
\* initial content, a staged content that differs from it.
InScenario(p, file_name, checksum, original) ==
  /\ original = OriginalPath
  /\ checksum = Sha1sumLine(InitialContent, OriginalPath)
  /\ ~check_filename(file_name)
  /\ local[p][LocalJoin(<<>>, file_name.name)] \notin {NoFile, InitialContent}

\* SSHDataAccess.push(file_name, checksum, change_name_to) up to the
\* existence check inside self.move_to(file_name, change_name_to=backup)
Push(i, file_name, checksum, change_name_to) ==
  LET p == ProcOf[i]
      new_name == IF change_name_to = "None" THEN file_name.name
                  ELSE Name(change_name_to)
      backup == Suffixed(new_name, "temp")
      original == PosixJoin(root, <<>>, new_name)
  IN
  /\ MoveToBegin(i, file_name, <<>>, backup, "push", checksum, original)
  /\ sameOriginal' = (sameOriginal /\ InScenario(p, file_name, checksum, original))
  /\ commits' = IF sameOriginal' THEN commits ELSE 0

\* A move_to that keeps the local file.
OsRemoveNothing(staging, path) == staging

\* os.remove(from_path) in a staging root
OsRemove(staging, path) == [staging EXCEPT ![path] = NoFile]

\* SSHDataAccess.move_to from sftp.put(from_path, to_path) to
\* os.remove(from_path); push then issues its lock-guarded command.
MoveToPut(p) ==
  /\ pc[p] = "put"
  /\ fs' = Write(fs, op[p].to_path, local[p][op[p].file])
  /\ local' = [local EXCEPT ![p] = OsRemove(local[p], op[p].file)]
  /\ MarkWritten(op[p].to_path, local[p][op[p].file])
  /\ IF op[p].kind = "push"
     THEN /\ pc' = [pc EXCEPT ![p] = "flock"]
          /\ UNCHANGED <<op, result>>
     ELSE Finish(op[p].inst, "ok")
  /\ UNCHANGED <<connVars, lock, held, commits, sameOriginal, atCheck>>
  /\ UNCHANGED lbVars

\* sftp.put(from_path, to_path) is interrupted or fails: the call raises,
\* with nothing or part of the bytes at to_path; os.remove is not reached.
MoveToPutFails(p) ==
  /\ pc[p] = "put"
  /\ \E left \in {NoFile, Partial} :
       /\ fs' = IF left = NoFile THEN fs ELSE Write(fs, op[p].to_path, left)
       /\ IF left = NoFile THEN UNCHANGED modified
          ELSE MarkWritten(op[p].to_path, left)
  /\ Finish(op[p].inst, "upload failed")
  /\ UNCHANGED <<connVars, local, lock, held, commits, sameOriginal, atCheck>>
  /\ UNCHANGED lbVars

\* ---------------------------------------------- conflict-safe push protocol
\* A rename that keeps no backup: the destination is overwritten in place.
BackupPathNone(path) == path

\* The path `mv -b` moves an existing destination to: the name with "~".
BackupPath(path) == [path EXCEPT !.name = Suffixed(path.name, "~")]

\* A command that goes on without holding the lock.
FlockGuardAbsent(p) == TRUE

\* `flock -x 200` of the command push issues: waits until the lock is free.
FlockGuard(p) == lock = 0

\* The lock is taken and curr=$(sha1sum {original}) is run: the output
\* line, or nothing and a line on the error stream when there is no file.
PushLock(p) ==
  LET original == op[p].original IN
  /\ pc[p] = "flock"
  /\ FlockGuard(p)
  /\ lock' = p
  /\ op' = [op EXCEPT ![p] =
              IF Exists(original)
              THEN [@ EXCEPT !.curr = Sha1sumLine(fs[original], original)]
              ELSE [@ EXCEPT !.curr = EmptyOutput, !.errors = @ + 1]]
  /\ pc' = [pc EXCEPT ![p] = "compare"]
  /\ UNCHANGED <<connVars, fs, local, held, result, histVars>>
  /\ UNCHANGED lbVars

\* The test with its branches exchanged.
MatchesInverted(prev, curr) == prev # curr
\* A test that compares the checksum argument with itself.
MatchesAlways(prev, curr) == prev = prev

\* if [[ $prev == $curr ]]
Matches(prev, curr) == prev = curr

\* then mv {updated} {original} -b; else echo CONFLICT_ERROR 1>&2; fi
PushCompare(p) ==
  LET original == op[p].original
      updated == op[p].to_path
  IN
  /\ pc[p] = "compare"
  /\ IF Matches(op[p].checksum, op[p].curr) /\ Exists(updated)
     THEN /\ fs' = LET kept == IF Exists(original)
                               THEN Write(fs, BackupPath(original), fs[original])
                               ELSE fs
                   IN Delete(Write(kept, original, fs[updated]), updated)
          /\ op' = [op EXCEPT ![p].renamed = TRUE]
          /\ commits' = IF sameOriginal /\ commits < 2 THEN commits + 1 ELSE commits
          /\ MarkWritten(original, fs[updated])
     ELSE \* the conflict marker, or mv's "cannot stat" when updated is gone
          /\ op' = [op EXCEPT ![p].errors = @ + 1]
          /\ UNCHANGED <<fs, commits, modified>>
  /\ pc' = [pc EXCEPT ![p] = "unlock"]
  /\ UNCHANGED <<connVars, local, lock, held, result, sameOriginal, atCheck>>
  /\ UNCHANGED lbVars

\* A subshell whose descriptor 200 stays open after the command.
ReleasedNever(p) == lock

\* The lock after the subshell `( ... ) 200>/tmp/scenario.lockfile` of p
\* has ended: its descriptor is closed, which releases the lock p holds.
Released(p) == IF lock = p THEN 0 ELSE lock

\* The subshell ends, which closes descriptor 200 and releases the lock;
\* errors = stderr.readlines(); if len(errors) > 0: raise IOError(...)
PushReturn(p) ==
  /\ pc[p] = "unlock"
  /\ lock' = Released(p)
  /\ Finish(op[p].inst, IF op[p].errors > 0 THEN "conflict" ELSE "ok")
  /\ UNCHANGED <<connVars, fs, local, held, histVars>>
  /\ UNCHANGED lbVars

\* ------------------------------------------------------- specifications
\* Checksum values a caller passes to push: the one it obtained, the
\* placeholder of the local backend, or an empty string.
ChecksumArgs(p) == {held[p], DummyValue, EmptyOutput}

\* Paths a caller removes: the temporary files pushes left behind.
RemoveTargets == {PosixJoin(root, <<>>, Suffixed(n, "temp")) : n \in RemoteNames}
                   \cup {OriginalPath}

\* Concurrent callers: one instance in each of the two processes, each
\* staging f, reading the checksum of root/f and pushing with it.
PushInsts == {"a", "c"}
BareF == [dir |-> <<>>, name |-> Name("f")]

Next ==
  \/ \E p \in Procs, c \in Contents : Stage(p, Name("f"), c)
  \/ \E i \in PushInsts : ChecksumBegin(i, Name("f"))
  \/ \E p \in Procs : ChecksumReturn(p)
  \/ \E i \in PushInsts : Push(i, BareF, held[ProcOf[i]], "None")
  \/ \E p \in Procs : MoveToPut(p)
  \/ \E p \in Procs : PushLock(p)
  \/ \E p \in Procs : PushCompare(p)
  \/ \E p \in Procs : PushReturn(p)

\* Both callers have connected before.
InitPush ==
  /\ InitClock
  /\ _ssh = [i \in Insts |-> IF i \in PushInsts THEN "open" ELSE "None"]
  /\ handshakes = [i \in Insts |-> IF i \in PushInsts THEN 1 ELSE 0]
  /\ InitStore
  /\ InitLocal

Spec == InitPush /\ [][Next]_vars

\* The concurrent callers under fair scheduling of the remote commands: a
\* command waiting in `flock -x` is granted the lock if the lock is free
\* again and again, and a command that holds the lock runs on to its end.
PushFairness ==
  \A p \in Procs : /\ SF_vars(PushLock(p))
                   /\ WF_vars(PushCompare(p))
                   /\ WF_vars(PushReturn(p))
\* Each caller stages content of its own: the content's number is its
\* process's, so caller 1 stages what root/f holds at first.
OwnContent(p) == p
NextFair ==
  \/ \E p \in Procs : Stage(p, Name("f"), OwnContent(p))
  \/ \E i \in PushInsts : ChecksumBegin(i, Name("f"))
  \/ \E p \in Procs : ChecksumReturn(p)
  \/ \E i \in PushInsts : Push(i, BareF, held[ProcOf[i]], "None")
  \/ \E p \in Procs : MoveToPut(p)
  \/ \E p \in Procs : PushLock(p)
  \/ \E p \in Procs : PushCompare(p)
  \/ \E p \in Procs : PushReturn(p)
SpecFair == InitPush /\ [][NextFair]_vars /\ PushFairness

\* One caller alone on the store, with every kind of argument.
SeqInst == "a"

NextSeq ==
  \/ \E n \in LocalNames, c \in Contents : Stage(Caller, Name(n), c)
  \/ \E t \in RemoveTargets : Remove(SeqInst, t)
  \/ \E n \in RemoteNames : ChecksumBegin(SeqInst, n)
  \/ ChecksumReturn(Caller)
  \/ \E f \in FileArgs, d \in ToDirs, n \in ChangeNames : MoveTo(SeqInst, f, d, n)
  \/ \E f \in FileArgs, n \in ChangeNames, k \in ChecksumArgs(Caller) :
       Push(SeqInst, f, k, n)
  \/ MoveToPut(Caller)
  \/ PushLock(Caller)
  \/ PushCompare(Caller)
  \/ PushReturn(Caller)

SpecSeq == InitPush /\ [][NextSeq]_vars

\* One process with two instances, a staged file, and the clock running.
ConnInsts == {"a", "b"}
TempOfF == PosixJoin(root, <<>>, Suffixed(Name("f"), "temp"))

InitConn ==
  /\ InitClock
  /\ _ssh = [i \in Insts |-> "None"]
  /\ handshakes = [i \in Insts |-> 0]
  /\ fs = (OriginalPath :> InitialContent)
  /\ local = [p \in Procs |-> [q \in LocalPaths |->
                IF p = Caller /\ q = LocalJoin(<<>>, Name("f")) THEN 2 ELSE NoFile]]
  /\ lock = 0
  /\ pc = [p \in Procs |-> "idle"]
  /\ op = [p \in Procs |-> NoOp]
  /\ result = NoResult
  /\ held = [p \in Procs |-> EmptyOutput]
  /\ commits = 0
  /\ sameOriginal = TRUE
  /\ modified = 0
  /\ atCheck = NoFile
  /\ InitLocal

NextConn ==
  \/ Tick
  \/ \E i \in ConnInsts : Close(i)
  \/ \E i \in ConnInsts : MakeDir(i, <<"d">>)
  \/ \E i \in ConnInsts : Remove(i, TempOfF)
  \/ \E i \in ConnInsts : ChecksumBegin(i, Name("f"))
  \/ ChecksumReturn(Caller)
  \/ \E i \in ConnInsts : CopyFromBegin(i, BareF, <<>>)
  \/ CopyFromGet(Caller)
  \/ CopyFromMove(Caller)
  \/ \E i \in ConnInsts : MoveTo(i, BareF, <<"d">>, "None")
  \/ \E i \in ConnInsts : Push(i, BareF, held[Caller], "None")
  \/ MoveToPut(Caller)
  \/ PushLock(Caller)
  \/ PushCompare(Caller)
  \/ PushReturn(Caller)

SpecConn == InitConn /\ [][NextConn]_vars

\* One caller of the remote backend moving files to the store and copying
\* them back, over a link and a disk that can fail; instance "b" has yet
\* to connect.
CopyInsts == {"a", "b"}
CopyTargets == {PosixJoin(root, d, Name("f")) : d \in ToDirs}

NextCopy ==
  \/ \E c \in Contents : Stage(Caller, Name("f"), c)
  \/ \E t \in CopyTargets : Remove(SeqInst, t)
  \/ \E i \in CopyInsts, f \in FileArgs, d \in ToDirs : MoveTo(i, f, d, "None")
  \/ MoveToPut(Caller)
  \/ MoveToPutFails(Caller)
  \/ \E f \in FileArgs, d \in ToDirs : CopyFromBegin(SeqInst, f, d)
  \/ CopyFromGet(Caller)
  \/ CopyFromGetFails(Caller)
  \/ CopyFromMove(Caller)
  \/ CopyFromMoveAcross(Caller)
  \/ CopyFromCopy(Caller)
  \/ CopyFromCopyFails(Caller)

SpecCopy == InitPush /\ [][NextCopy]_vars

\* ------------------------------------------------------------- the guards
\* Longest file name, in characters, given to _check_filename.
MaxNameLen == 4
\* Most lines a listing writes to one of its streams.
MaxLines == 2

\* File names as strings of characters; "/" is the path separator.
Chars == {"a", ".", "/"}
sep == "/"
Filenames == UNION {[1..n -> Chars] : n \in 0..MaxNameLen}

\* p.rfind(sep) + 1
RFindPlus1(s) ==
  LET at == {k \in 1..Len(s) : s[k] = sep}
  IN IF at = {} THEN 0 ELSE CHOOSE k \in at : \A j \in at : j <= k

\* head.rstrip(sep)
RECURSIVE RStrip(_)
RStrip(s) ==
  IF Len(s) > 0 /\ s[Len(s)] = sep THEN RStrip(SubSeq(s, 1, Len(s) - 1)) ELSE s

\* A dirname that strips the separators of every head.
PosixDirnameStripped(s) == RStrip(SubSeq(s, 1, RFindPlus1(s)))

\* os.path.dirname (posixpath.dirname): head = p[:i];
\* if head and head != sep*len(head): head = head.rstrip(sep)
PosixDirname(s) ==
  LET head == SubSeq(s, 1, RFindPlus1(s))
  IN IF Len(head) > 0 /\ ~(\A k \in 1..Len(head) : head[k] = sep)
     THEN RStrip(head)
     ELSE head

\* DataAccess._check_filename(filename): TRUE when ValueError is raised.
CheckFilenameRaises(s) == Len(PosixDirname(s)) # 0

\* A caller calls _check_filename(s) of instance i.
CheckFilenameBegin(i, s) ==
  LET p == ProcOf[i] IN
  /\ pc[p] = "idle"
  /\ pc' = [pc EXCEPT ![p] = "check_filename"]
  /\ op' = [op EXCEPT ![p] = [NoOp EXCEPT !.kind = "_check_filename",
                                           !.inst = i, !.filename = s]]
  /\ UNCHANGED <<result, connVars, fileVars, histVars>>
  /\ UNCHANGED lbVars

\* _check_filename returns, or raises ValueError.
CheckFilenameReturn(p) ==
  /\ pc[p] = "check_filename"
  /\ Finish(op[p].inst,
            IF CheckFilenameRaises(op[p].filename) THEN "invalid name" ELSE "ok")
  /\ UNCHANGED <<connVars, fileVars, histVars>>
  /\ UNCHANGED lbVars

\* A guard that looks at the listing's output stream.
GuardOutcomeFromOutput(out, err, should_exist) ==
  check_file_exists(IF out = 0 THEN 1 ELSE 0, should_exist)

\* _, _, stderr = self.execute_command(CommandBuilder.list(filepath)),
\* the listing having written out lines to its output stream and err lines
\* to its error stream, and the comparison on len(stderr.readlines()).
GuardOutcome(out, err, should_exist) == check_file_exists(err, should_exist)

\* A caller calls _check_file_exists(filepath, should_exist) of instance i;
\* the listing command writes out and err lines.
CheckFileExistsBegin(i, out, err, should_exist) ==
  LET p == ProcOf[i] IN
  /\ pc[p] = "idle"
  /\ pc' = [pc EXCEPT ![p] = "check_file_exists"]
  /\ op' = [op EXCEPT ![p] = [NoOp EXCEPT !.kind = "_check_file_exists",
                                           !.inst = i, !.output = out,
                                           !.errors = err,
                                           !.should_exist = should_exist]]
  /\ UNCHANGED <<result, connVars, fileVars, histVars>>
  /\ UNCHANGED lbVars

\* _check_file_exists returns, or raises OSError.
CheckFileExistsReturn(p) ==
  LET outcome == GuardOutcome(op[p].output, op[p].errors, op[p].should_exist)
  IN
  /\ pc[p] = "check_file_exists"
  /\ Finish(op[p].inst, IF outcome = "pass" THEN "ok" ELSE outcome)
  /\ UNCHANGED <<connVars, fileVars, histVars>>
  /\ UNCHANGED lbVars

\* The two guards, called with every file name and every listing.
NextGuard ==
  \/ \E s \in Filenames : CheckFilenameBegin(SeqInst, s)
  \/ CheckFilenameReturn(Caller)
  \/ \E out \in 0..MaxLines, err \in 0..MaxLines, e \in BOOLEAN :
       CheckFileExistsBegin(SeqInst, out, err, e)
  \/ CheckFileExistsReturn(Caller)

SpecGuard == InitPush /\ [][NextGuard]_vars

\* ------------------------------------------------- full paths on the store
\* self.root as a string: a store root one directory below "/".
RootString == <<"/", "a">>
\* The bare file name given with a directory argument.
BareName == <<"a">>

\* posixpath.join(a, b): b alone when it starts with the separator, else a
\* and b with one separator between them.
JoinTwo(a, b) ==
  IF Len(b) > 0 /\ b[1] = sep THEN b
  ELSE IF Len(a) = 0 \/ a[Len(a)] = sep THEN a \o b
  ELSE a \o <<sep>> \o b

\* posixpath.join(a, b, c)
JoinThree(a, b, c) == JoinTwo(JoinTwo(a, b), c)

\* The operations that build a full path from an argument.
PathKinds == {"makedir", "checksum", "copy_from", "move_to", "push"}

\* The full path each operation builds from its argument: relative_path of
\* makedir and checksum, from_dir of copy_from, to_dir of move_to (with a
\* bare file name), change_name_to of push.
FullPath(kind, arg) ==
  IF kind \in {"copy_from", "move_to"} THEN JoinThree(RootString, arg, BareName)
  ELSE JoinTwo(RootString, arg)

\* The segments of a path string, split at the separators.
RECURSIVE Segments(_)
Segments(s) ==
  LET at == {k \in 1..Len(s) : s[k] = sep} IN
  IF at = {} THEN <<s>>
  ELSE LET k == CHOOSE j \in at : \A h \in at : j <= h
       IN <<SubSeq(s, 1, k - 1)>> \o Segments(SubSeq(s, k + 1, Len(s)))

\* The directories an absolute path leads through on the server, as the
\* command given the path resolves it: empty and "." segments are skipped,
\* ".." goes one directory up and stays at "/".
RECURSIVE Resolve(_, _)
Resolve(segs, seen) ==
  IF segs = <<>> THEN seen
  ELSE LET h == Head(segs) IN
       IF Len(h) = 0 \/ h = <<".">> THEN Resolve(Tail(segs), seen)
       ELSE IF h = <<".", ".">>
       THEN Resolve(Tail(segs), SubSeq(seen, 1, Len(seen) - 1))
       ELSE Resolve(Tail(segs), Append(seen, h))

\* The path is the store root or lies below it.
InsideRoot(path) ==
  LET r == Resolve(Segments(RootString), <<>>)
      q == Resolve(Segments(path), <<>>)
  IN Len(q) >= Len(r) /\ SubSeq(q, 1, Len(r)) = r

\* A caller calls an operation of instance i with the path argument arg.
FullPathBegin(i, kind, arg) ==
  LET p == ProcOf[i] IN
  /\ pc[p] = "idle"
  /\ pc' = [pc EXCEPT ![p] = "join"]
  /\ op' = [op EXCEPT ![p] = [NoOp EXCEPT !.kind = kind, !.inst = i,
                                           !.filename = arg]]
  /\ UNCHANGED <<result, connVars, fileVars, histVars>>
  /\ UNCHANGED lbVars

\* full_path = posixpath.join(self.root, ...)
FullPathJoin(p) ==
  /\ pc[p] = "join"
  /\ pc' = [pc EXCEPT ![p] = "command"]
  /\ op' = [op EXCEPT ![p].full_path = FullPath(op[p].kind, op[p].filename)]
  /\ UNCHANGED <<result, connVars, fileVars, histVars>>
  /\ UNCHANGED lbVars

\* The command naming the full path is run on the server (`mkdir -p`, or
\* the listing of _check_file_exists, which finds the file or does not).
FullPathCommand(p) ==
  /\ pc[p] = "command"
  /\ \E found \in BOOLEAN :
       Finish(op[p].inst,
              IF op[p].kind = "makedir" \/ found THEN "ok" ELSE "not found")
  /\ UNCHANGED <<connVars, fileVars, histVars>>
  /\ UNCHANGED lbVars

NextPath ==
  \/ \E kind \in PathKinds, arg \in Filenames : FullPathBegin(SeqInst, kind, arg)
  \/ FullPathJoin(Caller)
  \/ FullPathCommand(Caller)

SpecPath == InitPush /\ [][NextPath]_vars

\* ------------------------------------------------------- progress_bar
\* Largest size, in bytes, of a transferred file.
MaxBytes == 8

\* A callback that gives the bar the cumulative count.
DeltaCumulative(a, last) == a

\* int(a - last[0]), for the integer byte counts the transfer reports
DeltaOf(a, last) == a - last

\* cbk, bar = progress_bar(...) in copy_from: bar = tqdm(...); last = [0];
\* the transfer of a file of b bytes starts.
ProgressBar(i, b) ==
  LET p == ProcOf[i] IN
  /\ pc[p] = "idle"
  /\ pc' = [pc EXCEPT ![p] = "transfer"]
  /\ op' = [op EXCEPT ![p] = [NoOp EXCEPT !.kind = "progress_bar", !.inst = i,
                                           !.output = b]]
  /\ UNCHANGED <<result, connVars, fileVars, histVars>>
  /\ UNCHANGED lbVars

\* The transfer calls show(a, b) with a bytes transferred so far:
\* bar.total = int(b); bar.update(int(a - last[0])); last[0] = a
\* (tqdm.update(n) adds n to the bar's count).
Show(p, a) ==
  /\ pc[p] = "transfer"
  /\ a >= op[p].last
  /\ a <= op[p].output
  /\ op' = [op EXCEPT ![p].bar_total = op[p].output,
                      ![p].delta = DeltaOf(a, op[p].last),
                      ![p].bar_n = @ + DeltaOf(a, op[p].last),
                      ![p].last = a]
  /\ UNCHANGED <<pc, result, connVars, fileVars, histVars>>
  /\ UNCHANGED lbVars

\* bar.close() once the transfer is over.
BarClose(p) ==
  /\ pc[p] = "transfer"
  /\ Finish(op[p].inst, "ok")
  /\ UNCHANGED <<connVars, fileVars, histVars>>
  /\ UNCHANGED lbVars

NextProgress ==
  \/ \E b \in 1..MaxBytes : ProgressBar(SeqInst, b)
  \/ \E a \in 0..MaxBytes : Show(Caller, a)
  \/ BarClose(Caller)

SpecProgress == InitPush /\ [][NextProgress]_vars

\* ---------------------------------------------------------- local backend
\* Largest number of subprocesses that are started and not yet run.
MaxPending == 4

\* A command LocalDataAccess.execute_command hands to Popen.
Mkdir(dir) == [cmd |-> "mkdir", src |-> NoPath, dest |-> [dir |-> dir, name |-> <<>>]]
Cp(src, dest) == [cmd |-> "cp", src |-> src, dest |-> dest]
Rm(target) == [cmd |-> "rm", src |-> target, dest |-> NoPath]

\* The caller writes a file into LOCAL_DIR.
LocalStage(name, content) ==
  LET src == PosixJoin(LOCAL_DIR, <<>>, name) IN
  /\ ~(src \in DOMAIN lfs /\ lfs[src] = content)
  /\ lfs' = Write(lfs, src, content)
  /\ UNCHANGED <<ldirs, pending, lresult>>
  /\ UNCHANGED <<connVars, fileVars, callVars, histVars>>

\* len(stderr.readlines()) of `ls dest` run by LocalDataAccess
LocalListErrors(path) == IF path \in DOMAIN lfs THEN 0 ELSE 1


\* LocalDataAccess.move_to: the checks, then self.copy(src, dest) and
\* self.remove(src), whose three commands are started and not waited for.
LocalMoveTo(file_name, to_dir, change_name_to) ==
  LET src == PosixJoin(LOCAL_DIR, <<>>, file_name.name)
      name == IF change_name_to = "None" THEN file_name.name
              ELSE Name(change_name_to)
      dest == PosixJoin(lroot, to_dir, name)
      started == {Mkdir(dest.dir), Cp(src, dest), Rm(src)}
  IN
  /\ IF check_filename(file_name)
     THEN /\ lresult' = "invalid name"
          /\ UNCHANGED pending
     ELSE IF check_file_exists(LocalListErrors(dest), FALSE) # "pass"
     THEN /\ lresult' = "already exists"
          /\ UNCHANGED pending
     ELSE /\ started \cap pending = {}
          /\ Cardinality(pending \cup started) <= MaxPending
          /\ pending' = pending \cup started
          /\ lresult' = "ok"
  /\ UNCHANGED <<lfs, ldirs>>
  /\ UNCHANGED <<connVars, fileVars, callVars, histVars>>

\* One of the started subprocesses runs: mkdir -p, cp or rm.
LocalRun(c) ==
  /\ c \in pending
  /\ pending' = pending \ {c}
  /\ IF c.cmd = "mkdir"
     THEN /\ ldirs' = ldirs \cup {c.dest.dir}
          /\ UNCHANGED lfs
     ELSE IF c.cmd = "cp"
     THEN /\ lfs' = IF c.src \in DOMAIN lfs /\ c.dest.dir \in ldirs
                    THEN Write(lfs, c.dest, lfs[c.src])
                    ELSE lfs
          /\ UNCHANGED ldirs
     ELSE /\ lfs' = IF c.src \in DOMAIN lfs THEN Delete(lfs, c.src) ELSE lfs
          /\ UNCHANGED ldirs
  /\ UNCHANGED lresult
  /\ UNCHANGED <<connVars, fileVars, callVars, histVars>>

\* LocalDataAccess.copy_from: `pass`
LocalCopyFrom(file_name, from_dir) ==
  /\ lresult' = "copy_from returned"
  /\ UNCHANGED <<lfs, ldirs, pending>>
  /\ UNCHANGED <<connVars, fileVars, callVars, histVars>>

\* Paths under the local backend's root that checksum is asked about.
LocalStorePaths == {PosixJoin(lroot, d, Name(n)) : d \in ToDirs, n \in LocalNames}

\* A checksum that reads the file.
LocalChecksumOfFile(path) ==
  IF path \in DOMAIN lfs THEN Sha1sumLine(lfs[path], path) ELSE EmptyOutput

\* LocalDataAccess.checksum: return "dummy_value"
LocalChecksumValue(path) == DummyValue

\* The caller calls LocalDataAccess.checksum for a path.
LocalChecksumBegin(path) ==
  /\ pc[Caller] = "idle"
  /\ pc' = [pc EXCEPT ![Caller] = "local_checksum"]
  /\ op' = [op EXCEPT ![Caller] = [NoOp EXCEPT !.kind = "local_checksum",
                                                !.original = path]]
  /\ UNCHANGED <<result, connVars, fileVars, histVars>>
  /\ UNCHANGED lbVars

\* LocalDataAccess.checksum returns.
LocalChecksumReturn ==
  /\ pc[Caller] = "local_checksum"
  /\ held' = [held EXCEPT ![Caller] = LocalChecksumValue(op[Caller].original)]
  /\ pc' = [pc EXCEPT ![Caller] = "idle"]
  /\ op' = [op EXCEPT ![Caller] = NoOp]
  /\ lresult' = "checksum returned"
  /\ UNCHANGED <<lfs, ldirs, pending>>
  /\ UNCHANGED <<result, connVars, fs, local, lock, histVars>>

\* A push that copies the staged file to the store, as move_to does.
LocalPushCopies(file_name, change_name_to) ==
  {Cp(PosixJoin(LOCAL_DIR, <<>>, file_name.name),
      PosixJoin(lroot, <<>>, IF change_name_to = "None" THEN file_name.name
                             ELSE Name(change_name_to)))}

\* The commands LocalDataAccess.push starts: none, its body is `pass`.
LocalPushCommands(file_name, change_name_to) == {}

\* LocalDataAccess.push(file_name, checksum, change_name_to)
LocalPush(file_name, checksum, change_name_to) ==
  /\ pending' = pending \cup LocalPushCommands(file_name, change_name_to)
  /\ lresult' = "push returned"
  /\ UNCHANGED <<lfs, ldirs>>
  /\ UNCHANGED <<connVars, fileVars, callVars, histVars>>

NextLocal ==
  \/ \E n \in LocalNames, c \in Contents : LocalStage(Name(n), c)
  \/ \E f \in FileArgs, d \in ToDirs, n \in ChangeNames : LocalMoveTo(f, d, n)
  \/ \E c \in pending : LocalRun(c)
  \/ \E f \in FileArgs, d \in ToDirs : LocalCopyFrom(f, d)
  \/ \E t \in LocalStorePaths : LocalChecksumBegin(t)
  \/ LocalChecksumReturn
  \/ \E f \in FileArgs, k \in {held[Caller], DummyValue, EmptyOutput},
        n \in ChangeNames : LocalPush(f, k, n)

SpecLocal == Init /\ [][NextLocal]_vars

\* ------------------------------------------------ execute_command_async
\* The local process Popen(["ssh", user@host] + command) starts.
SshProcess(i, command) == [kind |-> "ssh", inst |-> i, command |-> command]

\* Commands given to execute_command_async: removals on the store.
AsyncCommands == {[cmd |-> "rm", path |-> q] : q \in {OriginalPath, TempOfF}}

\* A launch that takes the session from the property ssh.
AsyncViaSession(i) ==
  \E got \in BOOLEAN, s \in SshStates :
    /\ Session(i, got, s)
    /\ _ssh' = [_ssh EXCEPT ![i] = s]

\* execute_command_async builds its own `ssh` command line from
\* server_setup: self.ssh, self._ssh and _last_attempt do not occur in it.
AsyncConnection(i) == UNCHANGED connVars

\* SSHDataAccess.execute_command_async: process = Popen(full_command);
\* return process, without wait() or communicate().
ExecuteCommandAsync(i, command) ==
  /\ pc[ProcOf[i]] = "idle"
  /\ SshProcess(i, command) \notin pending
  /\ Cardinality(pending) < MaxPending
  /\ pending' = pending \cup {SshProcess(i, command)}
  /\ AsyncConnection(i)
  /\ Finish(i, "launched")
  /\ UNCHANGED <<fileVars, histVars, lfs, ldirs, lresult>>

\* The ssh process started by execute_command_async runs to its end: its
\* own connection to the server fails, or the command runs on the store.
SshProcessRuns(c) ==
  /\ c \in pending
  /\ c.kind = "ssh"
  /\ pending' = pending \ {c}
  /\ \/ fs' = fs
     \/ /\ Exists(c.command.path)
        /\ fs' = Delete(fs, c.command.path)
  /\ UNCHANGED <<connVars, local, lock, held, callVars, histVars>>
  /\ UNCHANGED <<lfs, ldirs, lresult>>

\* One caller with two instances that have yet to connect, launching
\* commands while the server accepts or refuses connections.
NextAsync ==
  \/ Tick
  \/ \E i \in ConnInsts : Close(i)
  \/ \E i \in ConnInsts : MakeDir(i, <<"d">>)
  \/ \E i \in ConnInsts, c \in AsyncCommands : ExecuteCommandAsync(i, c)
  \/ \E c \in pending : SshProcessRuns(c)

SpecAsync == InitConn /\ [][NextAsync]_vars

\* move_to on both backends: one caller of the remote backend and one
\* caller of the local backend, each staging and moving files.
NextMove ==
  \/ \E c \in Contents : Stage(Caller, Name("f"), c)
  \/ \E f \in FileArgs, d \in ToDirs, n \in ChangeNames : MoveTo(SeqInst, f, d, n)
  \/ MoveToPut(Caller)
  \/ \E n \in LocalNames, c \in Contents : LocalStage(Name(n), c)
  \/ \E f \in FileArgs, d \in ToDirs, n \in ChangeNames : LocalMoveTo(f, d, n)
  \/ \E c \in pending : LocalRun(c)

SpecMove == InitPush /\ [][NextMove]_vars

\* ------------------------------------------------------------- properties
\* The content a path has after the step.
ContentAfter(path) == IF path \in DOMAIN fs' THEN fs'[path] ELSE NoFile

\* C1: push, conflict case.  For a push that has uploaded its .temp file and
\* whose checksum argument differs from the sha1sum line of the file that
\* is at root/<final name>: the call ends with the conflict error, the file
\* at root/<final name> has the content it had before the call, and
\* root/<final name>.temp is present after the call.
C1_ConflictCase ==
  [][\A p \in Procs :
       (/\ PushReturn(p)
        /\ op[p].prior # NoFile
        /\ op[p].checksum # Sha1sumLine(op[p].prior, op[p].original))
       => /\ result' = [proc |-> p, inst |-> op[p].inst, how |-> "conflict"]
          /\ ContentAfter(op[p].original) = op[p].prior
          /\ ContentAfter(op[p].to_path) # NoFile]_vars

\* A push with a checksum that does not match has run its command.
C1_Witness ==
  \E p \in Procs :
    /\ pc[p] = "unlock"
    /\ op[p].prior # NoFile
    /\ op[p].checksum # Sha1sumLine(op[p].prior, op[p].original)
    /\ op[p].errors > 0
    /\ Exists(op[p].to_path)

\* C2: push, success case.  For a push that has uploaded its .temp file and
\* whose checksum argument equals the sha1sum line of the file at
\* root/<final name>: the call returns without error, root/<final name>
\* then holds the content the caller had staged, and the .temp is gone.
C2_SuccessCase ==
  [][\A p \in Procs :
       (/\ PushReturn(p)
        /\ op[p].prior # NoFile
        /\ op[p].checksum = Sha1sumLine(op[p].prior, op[p].original))
       => /\ result' = [proc |-> p, inst |-> op[p].inst, how |-> "ok"]
          /\ ContentAfter(op[p].original) = op[p].staged
          /\ ContentAfter(op[p].to_path) = NoFile]_vars

\* A push with the matching checksum has renamed a content that differs
\* from the one it replaced.
C2_Witness ==
  \E p \in Procs :
    /\ pc[p] = "unlock"
    /\ op[p].prior # NoFile
    /\ op[p].checksum = Sha1sumLine(op[p].prior, op[p].original)
    /\ op[p].renamed
    /\ op[p].staged # op[p].prior
    /\ ContentAt(op[p].original) = op[p].staged

\* A push call of process p ends in this step: at its upload step, or
\* after its lock-guarded command.
PushEnds(p) ==
  \/ PushReturn(p)
  \/ \E i \in PushInsts :
       /\ ProcOf[i] = p
       /\ Push(i, BareF, held[p], "None")
       /\ pc'[p] = "idle"

\* Processes whose lock-guarded command is between its digest and its end.
InCommand == {p \in Procs : pc[p] \in {"compare", "unlock"}}

\* C3 as stated: with concurrent pushers of root/f that all give the
\* checksum of the original content and stage another content, the
\* commands do not interleave, at most one rename is committed, and every
\* call that has ended has ended without error or with the conflict error.
C3_Original ==
  /\ Cardinality(InCommand) <= 1
  /\ sameOriginal => /\ commits <= 1
                     /\ result.how \in {"none", "ok", "conflict"}

\* C3 as amended: the commands do not interleave, at most one rename is
\* committed, a pusher returns without error only when its command renamed,
\* and every other pusher fails: with the conflict error after its command,
\* or with the already-exists error at its upload step.
C3_NoLostUpdate ==
  /\ [](Cardinality(InCommand) <= 1)
  /\ [](sameOriginal => commits <= 1)
  /\ [][\A p \in Procs :
          (PushReturn(p) /\ sameOriginal)
          => \/ result'.how = "ok" /\ op[p].renamed
             \/ result'.how = "conflict" /\ ~op[p].renamed]_vars
  /\ [][\A p \in Procs :
          (PushEnds(p) /\ ~PushReturn(p) /\ sameOriginal')
          => result'.how = "already exists"]_vars

\* One pusher has renamed while the other waits for the lock.
C3_Witness ==
  \E p, q \in Procs :
    /\ p # q
    /\ sameOriginal /\ commits = 1
    /\ pc[p] = "unlock" /\ op[p].renamed
    /\ pc[q] = "flock"

\* The caller's push gives the value its last checksum() call returned
\* for the path it pushes to.
UsesHeld ==
  /\ op[Caller].kind = "push"
  /\ Len(held[Caller]) = 2
  /\ op[Caller].checksum = held[Caller]
  /\ held[Caller][2] = op[Caller].original

\* C4 as stated: when the caller pushes with the checksum it obtained, the
\* push commits if no process wrote root/name since, and fails with the
\* conflict error if some process changed its content since.
C4_Original ==
  [][(PushCompare(Caller) /\ UsesHeld)
     => /\ modified = 0 => op'[Caller].renamed
        /\ modified = 2 => ~op'[Caller].renamed /\ op'[Caller].errors > 0]_vars

\* C4 as amended: a push that has uploaded its file commits exactly when,
\* at its comparison, root/name holds the content it held when the checksum
\* was obtained (never written since, or changed and given that content
\* again) and the uploaded name.temp is still in place; otherwise it fails
\* with the error push raises for a conflict.
C4_RoundTrip ==
  /\ [][(PushCompare(Caller) /\ UsesHeld)
        => /\ op'[Caller].renamed <=>
                (/\ ContentAt(op[Caller].original) = atCheck
                 /\ Exists(op[Caller].to_path))
           /\ ~op'[Caller].renamed => op'[Caller].errors > 0]_vars
  /\ [][(PushReturn(Caller) /\ UsesHeld)
        => result'.how = IF op[Caller].renamed THEN "ok" ELSE "conflict"]_vars

\* The caller's command is about to compare, the content of root/f was
\* changed since the checksum and is again what it was.
C4_Witness ==
  /\ pc[Caller] = "compare"
  /\ UsesHeld
  /\ modified = 2
  /\ ContentAt(op[Caller].original) = atCheck
  /\ Exists(op[Caller].to_path)

\* ------------------------------------------- connection manager properties
\* The step is the start of an operation called on instance i that
\* evaluates self.ssh (move_to and push do so after their local checks).
Operation(i) ==
  LET p == ProcOf[i] IN
  \/ \E d \in ToDirs : MakeDir(i, d)
  \/ Remove(i, TempOfF)
  \/ \E n \in RemoteNames : ChecksumBegin(i, n)
  \/ \E f \in FileArgs, d \in ToDirs :
       CopyFromBegin(i, f, d) /\ ~check_filename(f)
  \/ \E f \in FileArgs, d \in ToDirs, n \in ChangeNames :
       /\ MoveTo(i, f, d, n)
       /\ ~check_filename(f)
       /\ local[p][LocalJoin(<<>>, f.name)] # NoFile
  \/ \E f \in FileArgs, n \in ChangeNames :
       /\ Push(i, f, held[p], n)
       /\ ~check_filename(f)
       /\ local[p][LocalJoin(<<>>, f.name)] # NoFile

\* A call on instance i starts in the step: it ends at once, or goes on
\* with i's locals.
Starts(i) ==
  /\ pc[ProcOf[i]] = "idle"
  /\ IF pc'[ProcOf[i]] = "idle" THEN result'.inst = i
                                 ELSE op'[ProcOf[i]].inst = i

\* The step is an operation on instance i that reaches self.ssh.
Operates(i) == Starts(i) /\ Operation(i)

\* The step evaluates self.ssh of instance i.
Access(i) == Starts(i) /\ (Operation(i) \/ Close(i))

\* A connection attempt of i's process failed less than the cool-down ago.
InCoolDown(i) ==
  /\ failedAt[ProcOf[i]] >= 0
  /\ now - failedAt[ProcOf[i]] < RetryAfter

\* How a call on instance i ends when the attempt is suppressed.
Suppressed(i) == [proc |-> ProcOf[i], inst |-> i, how |-> "retry suppressed"]

\* C5: in the cool-down after a failed connection attempt, every access to
\* the session of an instance that has no session fails with the
\* connection error and performs no handshake.
C5_CoolDown ==
  [][\A i \in Insts :
       (_ssh[i] = "None" /\ InCoolDown(i) /\ Access(i))
       => /\ handshakes' = handshakes
          /\ result' = Suppressed(i)
          /\ _ssh'[i] = "None"]_vars

\* An access was suppressed by the instance that failed, within the cool-down.
C5_Witness ==
  /\ result.how = "retry suppressed"
  /\ result.inst = failedBy[result.proc]
  /\ InCoolDown(result.inst)

\* C6: while the cool-down after a failed attempt of one instance runs, no
\* other instance of the same process that has no session performs a
\* handshake, and its accesses fail with the connection error.
C6_SharedClock ==
  [][\A i, j \in Insts :
       (/\ i # j /\ ProcOf[i] = ProcOf[j]
        /\ failedBy[ProcOf[i]] = i
        /\ InCoolDown(i)
        /\ _ssh[j] = "None")
       => /\ handshakes'[j] = handshakes[j]
          /\ result' = Suppressed(j) \/ ~Access(j)]_vars

\* An instance that never attempted a handshake was refused within the
\* cool-down of another instance's failure.
C6_Witness ==
  /\ result.how = "retry suppressed"
  /\ failedBy[result.proc] \notin {"none", result.inst}
  /\ handshakes[result.inst] = 0
  /\ InCoolDown(result.inst)

\* The access of instance i is refused without an attempt.
Refused(i) == _ssh[i] = "None" /\ ~should_attempt(i) /\ Access(i)

\* C7 as stated: the message of a refused access names the remaining wait,
\* the cool-down minus the time since the last failed attempt.
C7_Original ==
  [][\A i \in Insts :
       Refused(i)
       => waitMsg' = RetryAfter - (now - _last_attempt[ProcOf[i]])]_vars

\* C7 as amended: the message of a refused access names the length of the
\* cool-down, whatever time has passed since the last failed attempt.
C7_Message ==
  [][\A i \in Insts : Refused(i) => waitMsg' = RetryAfter]_vars

\* An access was refused part of the way through the cool-down.
C7_Witness ==
  /\ result.how = "retry suppressed"
  /\ waitMsg = RetryAfter
  /\ failedAt[result.proc] >= 0
  /\ now - failedAt[result.proc] \in 1..(RetryAfter - 1)
  /\ _last_attempt[result.proc] = failedAt[result.proc]

C9_CloseTerminal ==
  /\ [][\A i \in Insts :
          (Close(i) /\ _ssh[i] = "open") => _ssh'[i] = "closed"]_vars
  /\ [][\A i \in Insts :
          _ssh[i] = "closed"
          => /\ _ssh'[i] = "closed"
             /\ handshakes'[i] = handshakes[i]
             /\ Operates(i)
                => /\ result' = [proc |-> ProcOf[i], inst |-> i,
                                 how |-> "inactive"]
                   /\ fs' = fs
                   /\ local' = local
                   /\ pc'[ProcOf[i]] = "idle"]_vars

\* An operation was refused on an instance that had connected and closed.
C9_Witness ==
  \E i \in Insts :
    /\ _ssh[i] = "closed"
    /\ handshakes[i] = 1
    /\ result = [proc |-> ProcOf[i], inst |-> i, how |-> "inactive"]

\* ------------------------------------------------------ move_to properties
\* The destination move_to resolves on the remote and on the local backend.
RemoteDest(f, d, n) ==
  PosixJoin(root, d, IF n = "None" THEN f.name ELSE Name(n))
LocalDest(f, d, n) ==
  PosixJoin(lroot, d, IF n = "None" THEN f.name ELSE Name(n))

\* C10: on both backends, a move_to of a staged file whose resolved
\* destination holds a file ends with the already-exists error; the
\* destination and every other file are as they were, nothing is uploaded
\* or copied, and the staged file stays where it is.
C10_NoSilentOverwrite ==
  /\ [][\A i \in Insts, f \in FileArgs, d \in ToDirs, n \in ChangeNames :
          (/\ ~check_filename(f)
           /\ local[ProcOf[i]][LocalJoin(<<>>, f.name)] # NoFile
           /\ _ssh[i] = "open"
           /\ Exists(RemoteDest(f, d, n))
           /\ MoveTo(i, f, d, n))
          => /\ result' = [proc |-> ProcOf[i], inst |-> i,
                           how |-> "already exists"]
             /\ pc'[ProcOf[i]] = "idle"
             /\ fs' = fs
             /\ local' = local]_vars
  /\ [][\A f \in FileArgs, d \in ToDirs, n \in ChangeNames :
          (/\ ~check_filename(f)
           /\ LocalDest(f, d, n) \in DOMAIN lfs
           /\ LocalMoveTo(f, d, n))
          => /\ lresult' = "already exists"
             /\ lfs' = lfs
             /\ pending' = pending]_vars

\* On each backend a second move_to to a destination that an earlier
\* move_to filled was refused, with the file staged again and the earlier
\* file still at the destination.
C10_Witness ==
  /\ result = [proc |-> Caller, inst |-> SeqInst, how |-> "already exists"]
  /\ Exists(PosixJoin(root, <<"d">>, Name("f")))
  /\ local[Caller][LocalJoin(<<>>, Name("f"))]
       \notin {NoFile, fs[PosixJoin(root, <<"d">>, Name("f"))]}
  /\ lresult = "already exists"
  /\ pending = {}
  /\ PosixJoin(lroot, <<"d">>, Name("f")) \in DOMAIN lfs
  /\ PosixJoin(LOCAL_DIR, <<>>, Name("f")) \in DOMAIN lfs
  /\ lfs[PosixJoin(LOCAL_DIR, <<>>, Name("f"))]
       # lfs[PosixJoin(lroot, <<"d">>, Name("f"))]

\* ---------------------------------------------------- transfer properties
\* The bytes at a path of the local backend's machine after the step.
LocalContentAfter(path) == IF path \in DOMAIN lfs' THEN lfs'[path] ELSE NoFile

\* C11: move_to then copy_from returns the bytes, on both backends.
\* Remote: the upload of move_to puts the staged bytes at root/d/f, and the
\* download of copy_from(f, d) fetches the bytes of root/d/f, which end
\* at the staging root's d/f.  Local: when copy_from(f, d) follows a move_to that returned
\* without error and whose commands have run, with root/d/f in place, the
\* staging directory holds f, or d/f, with the bytes of root/d/f.
C11_RoundTrip ==
  /\ [][\A p \in Procs :
          (op[p].kind = "move_to" /\ MoveToPut(p))
          => ContentAfter(op[p].to_path) = op[p].staged]_vars
  /\ [][\A p \in Procs :
          (Exists(op[p].original) /\ CopyFromGet(p))
          => op'[p].tmp = fs[op[p].original]]_vars
  /\ [][\A p \in Procs :
          (CopyFromMove(p) \/ CopyFromCopy(p))
          => local'[p][op[p].file] = op[p].tmp]_vars
  /\ [][\A f \in FileArgs, d \in ToDirs :
          (/\ lresult = "ok"
           /\ pending = {}
           /\ LocalDest(f, d, "None") \in DOMAIN lfs
           /\ LocalCopyFrom(f, d))
          => \/ LocalContentAfter(PosixJoin(LOCAL_DIR, <<>>, f.name))
                  = lfs[LocalDest(f, d, "None")]
             \/ LocalContentAfter(PosixJoin(LOCAL_DIR, d, f.name))
                  = lfs[LocalDest(f, d, "None")]]_vars

\* The contents the final local path of a copy_from in progress may have:
\* the content it had before the call or, once the download is complete,
\* the complete remote content.
Unexposed(p) ==
  {op[p].prior} \cup (IF pc[p] = "get" THEN {} ELSE {op[p].tmp})

\* C12: while a copy_from is in progress its final local path is as it
\* was before the call or holds the complete remote content, and when the
\* call fails the final local path is as it was before the call.
C12_NoPartialDownload ==
  /\ [](\A p \in Procs :
          (op[p].kind = "copy_from" /\ pc[p] # "idle")
          => local[p][op[p].file] \in Unexposed(p))
  /\ [][\A p \in Procs :
          (/\ op[p].kind = "copy_from"
           /\ pc'[p] = "idle"
           /\ result'.how # "ok"
           /\ \/ CopyFromGet(p) \/ CopyFromGetFails(p)
              \/ CopyFromCopyFails(p))
          => local'[p][op[p].file] = op[p].prior]_vars

HasSeparator(s) == \E k \in 1..Len(s) : s[k] = sep

\* C14: _check_filename returns for every name without a path separator
\* and raises its validation error for every name that contains one.
C14_BareFilename ==
  [][\A p \in Procs :
       CheckFilenameReturn(p)
       => result'.how = IF HasSeparator(op[p].filename)
                        THEN "invalid name" ELSE "ok"]_vars

\* The guard has refused a name and is now called with a name of dots.
C14_Witness ==
  /\ result.how = "invalid name"
  /\ pc[Caller] = "check_filename"
  /\ op[Caller].filename = <<".", ".">>

\* C15: with should_exist true the guard raises the not-found error
\* exactly when the error stream has lines, with should_exist false it
\* raises the already-exists error exactly when the error stream has none,
\* whatever the output stream holds.
C15_ExistenceGuard ==
  [][\A p \in Procs :
       CheckFileExistsReturn(p)
       => result'.how =
            IF op[p].should_exist
            THEN (IF op[p].errors # 0 THEN "not found" ELSE "ok")
            ELSE (IF op[p].errors = 0 THEN "already exists" ELSE "ok")]_vars

\* The guard is called for a listing that wrote to both streams, after it
\* raised the not-found error.
C15_Witness ==
  /\ result.how = "not found"
  /\ pc[Caller] = "check_file_exists"
  /\ op[Caller].output > 0
  /\ op[Caller].errors > 0
  /\ ~op[Caller].should_exist

\* ------------------------------------------------ local backend properties
\* C16: LocalDataAccess.checksum returns the placeholder, whatever path it
\* is asked about, whether or not a file is there and whatever it holds.
C16_LocalChecksum ==
  [][LocalChecksumReturn => held'[Caller] = DummyValue]_vars

\* checksum has returned the placeholder and is asked again, about a path
\* where a file is, while the other path of the store holds no file.
C16_Witness ==
  /\ lresult = "checksum returned"
  /\ held[Caller] = DummyValue
  /\ pc[Caller] = "local_checksum"
  /\ op[Caller].original \in DOMAIN lfs
  /\ \E t \in LocalStorePaths : t \notin DOMAIN lfs

\* C17: LocalDataAccess.push returns without error for every file name,
\* checksum and new name, starts no command, and leaves the files and
\* directories of the store root and of the staging directory as they were.
C17_LocalPushNoOp ==
  [][\A f \in FileArgs, k \in {held[Caller], DummyValue, EmptyOutput},
        n \in ChangeNames :
       LocalPush(f, k, n)
       => /\ lresult' = "push returned"
          /\ pending' = pending
          /\ lfs' = lfs
          /\ ldirs' = ldirs]_vars

\* push has returned with a file in the staging directory, a file with
\* other bytes at the store root and no command started.
C17_Witness ==
  /\ lresult = "push returned"
  /\ pending = {}
  /\ PosixJoin(LOCAL_DIR, <<>>, Name("f")) \in DOMAIN lfs
  /\ PosixJoin(lroot, <<>>, Name("f")) \in DOMAIN lfs
  /\ lfs[PosixJoin(LOCAL_DIR, <<>>, Name("f"))]
       # lfs[PosixJoin(lroot, <<>>, Name("f"))]

\* --------------------------------------------------------- push properties
\* How a call of push ends when IOError("Failed to push file ...") is raised.
PushError(p) == [proc |-> p, inst |-> op[p].inst, how |-> "conflict"]

\* C18: push raises at its verification step exactly when its command did
\* not rename; when it raises, the file at the final name is as it was
\* before the call and the .temp file is on the store; when the command
\* renamed, push returns without error.
C18_ErrorIffNotCommitted ==
  [][\A p \in Procs :
       PushReturn(p)
       => /\ result' = PushError(p) <=> ~op[p].renamed
          /\ result' = PushError(p)
             => /\ ContentAfter(op[p].original) = op[p].prior
                /\ ContentAfter(op[p].to_path) # NoFile
          /\ op[p].renamed
             => result' = [proc |-> p, inst |-> op[p].inst, how |-> "ok"]]_vars

\* The .temp path of a push of file f under the name n.
TempOf(f, n) ==
  PosixJoin(root, <<>>,
            Suffixed(IF n = "None" THEN f.name ELSE Name(n), "temp"))

\* C19: while root/<final name>.temp is on the store, a push of a staged
\* file under that name ends with the already-exists error at its upload
\* step, before its command is issued: the store, the lock and the staging
\* root are as they were.  With no .temp on the store the push goes on to
\* its upload.
C19_StaleTempBlocks ==
  [][\A i \in Insts, f \in FileArgs, n \in ChangeNames :
       (/\ ~check_filename(f)
        /\ local[ProcOf[i]][LocalJoin(<<>>, f.name)] # NoFile
        /\ _ssh[i] = "open"
        /\ \E k \in ChecksumArgs(ProcOf[i]) : Push(i, f, k, n))
       => IF Exists(TempOf(f, n))
          THEN /\ result' = [proc |-> ProcOf[i], inst |-> i,
                             how |-> "already exists"]
               /\ pc'[ProcOf[i]] = "idle"
               /\ fs' = fs
               /\ local' = local
               /\ lock' = lock
          ELSE pc'[ProcOf[i]] = "put"]_vars

\* A push was refused because of the .temp file that is on the store, with
\* the final file and the staged file in place.
C19_Witness ==
  /\ result = [proc |-> Caller, inst |-> SeqInst, how |-> "already exists"]
  /\ Exists(TempOfF)
  /\ Exists(OriginalPath)
  /\ fs[TempOfF] # fs[OriginalPath]
  /\ local[Caller][LocalJoin(<<>>, Name("f"))] \in Contents

\* C20: the step that completes the upload of a push removes the staged
\* file, and when a push ends with its error the staged content is at
\* root/<final name>.temp, not at the final name (which is as it was
\* before the call) and not in the staging root.
C20_ContentOnlyInTemp ==
  /\ [][\A p \in Procs :
          (op[p].kind = "push" /\ MoveToPut(p))
          => local'[p][op[p].file] = NoFile]_vars
  /\ [][\A p \in Procs :
          (PushReturn(p) /\ result' = PushError(p))
          => /\ local'[p][op[p].file] = NoFile
             /\ ContentAfter(op[p].to_path) = op[p].staged
             /\ ContentAfter(op[p].original) = op[p].prior]_vars

\* ------------------------------------------- concurrent push properties
\* C21: with concurrent pushers of one final name, the rename a pusher's
\* command commits installs the content that pusher's caller staged, and a
\* push that returns without error has renamed.
C21_OwnContentCommitted ==
  /\ [][\A p \in Procs :
          (PushCompare(p) /\ op'[p].renamed)
          => ContentAfter(op[p].original) = op[p].staged]_vars
  /\ [][\A p \in Procs :
          (PushReturn(p) /\ result'.how = "ok") => op[p].renamed]_vars

\* A remote command of p is running: issued and not yet returned.
CommandRuns(p) == pc[p] \in {"flock", "compare", "unlock"}

\* C22: under fair scheduling every pusher that has issued the lock-guarded
\* command acquires the lock and its push ends, in success or in the
\* conflict error; it compares once and renames at most once, while it
\* holds the lock; the lock is held only by a running command that can take
\* its next step, and is free of p once p's command has completed.
C22_LockLiveness ==
  /\ \A p \in Procs : (pc[p] = "flock") ~> (pc[p] = "compare" /\ lock = p)
  /\ \A p \in Procs : (pc[p] = "flock") ~> (pc[p] = "idle" /\ lock # p)
  /\ [](\A p \in Procs :
          /\ lock = p => pc[p] \in {"compare", "unlock"}
          /\ op[p].renamed => pc[p] = "unlock"
          /\ pc[p] \in {"compare", "unlock"} => lock = p
          /\ CommandRuns(p) =>
               \E q \in Procs : ENABLED (PushLock(q) \/ PushCompare(q)
                                           \/ PushReturn(q)))
  /\ [][\A p \in Procs :
          /\ (pc[p] = "compare" /\ pc'[p] # "compare")
             => pc'[p] = "unlock" /\ lock' = p
          /\ (pc[p] = "unlock" /\ pc'[p] # "unlock")
             => /\ pc'[p] = "idle" /\ lock' = 0
                /\ result'.proc = p /\ result'.how \in {"ok", "conflict"}
          /\ (pc[p] = "unlock" /\ pc'[p] = "unlock")
             => ContentAfter(op[p].original) = ContentAt(op[p].original)]_vars
\* Both pushers wait for or hold the lock, and one of them has renamed.
C22_Witness ==
  /\ pc[1] = "flock" /\ pc[2] = "unlock" /\ lock = 2 /\ op[2].renamed

\* ------------------------------------------- retry clock properties
\* Instance i makes a handshake attempt in this step.
Attempts(i) == handshakes'[i] # handshakes[i]

\* C23: a handshake attempt either succeeds, and then _last_attempt is
\* unchanged, or fails, and then _last_attempt of the process is the time
\* of the failure, the call ends in the connection error and self._ssh is
\* still None; no step without a failed attempt writes _last_attempt, and
\* _last_attempt never decreases (the clock read by time.time() does not
\* go back).
C23_RetryClock ==
  [][/\ \A i \in Insts :
          Attempts(i) =>
            /\ _ssh[i] = "None"
            /\ \/ /\ _ssh'[i] # "None"
                  /\ _last_attempt' = _last_attempt
               \/ /\ _ssh'[i] = "None"
                  /\ _last_attempt'[ProcOf[i]] = now'
                  /\ \A q \in Procs \ {ProcOf[i]} :
                       _last_attempt'[q] = _last_attempt[q]
                  /\ pc'[ProcOf[i]] = "idle"
                  /\ result' = [proc |-> ProcOf[i], inst |-> i,
                                how |-> "connect failed"]
     /\ (_last_attempt' # _last_attempt) => \E i \in Insts : Attempts(i)
     /\ \A p \in Procs : _last_attempt'[p] >= _last_attempt[p]]_vars
\* A handshake has failed after the clock had advanced: the class attribute
\* holds the time of the failure and the instance has no session.
C23_Witness ==
  /\ result.how = "connect failed"
  /\ _ssh[result.inst] = "None"
  /\ now > StartTime
  /\ _last_attempt[result.proc] = now
  /\ \E i \in Insts : _ssh[i] = "open"

\* C24: a handshake is attempted only by the step that starts a call, on an
\* instance without a session, and once; an operation that starts on an
\* instance without a session and does not obtain one ends in that step
\* with a connection error, nothing of it is left to run, and the remote
\* store and the lock are as they were.
C24_NoAutomaticRetry ==
  [][\A i \in Insts :
       /\ Attempts(i)
          => /\ handshakes'[i] = handshakes[i] + 1
             /\ _ssh[i] = "None"
             /\ Starts(i)
       /\ (_ssh[i] = "None" /\ _ssh'[i] = "None" /\ Operates(i))
          => /\ result'.how \in ConnectionErrors
             /\ pc'[ProcOf[i]] = "idle"
             /\ op'[ProcOf[i]] = NoOp
             /\ fs' = fs
             /\ lock' = lock]_vars
\* An operation has failed on its second handshake attempt, made once the
\* cool-down of the first had passed.
C24_Witness ==
  /\ result.how = "connect failed"
  /\ handshakes[result.inst] = 2
  /\ _ssh[result.inst] = "None"
  /\ fs = [q \in {OriginalPath} |-> InitialContent]

\* ------------------------------------------- asynchronous command properties
\* C25: execute_command_async on instance i leaves self._ssh of every
\* instance, _last_attempt and the count of handshakes as they were, returns
\* with the process started and its command not yet run on the store; and
\* it can be called whatever the connection state and the retry clock are.
C25_AsyncIndependent ==
  /\ [][\A i \in Insts :
          (pending' # pending /\ Starts(i)
             /\ \E c \in AsyncCommands : ExecuteCommandAsync(i, c))
          => /\ _ssh' = _ssh
             /\ _last_attempt' = _last_attempt
             /\ handshakes' = handshakes
             /\ waitMsg' = waitMsg
             /\ result'.how = "launched"
             /\ pc'[ProcOf[i]] = "idle"
             /\ fs' = fs
             /\ \E c \in AsyncCommands :
                  pending' = pending \cup {SshProcess(i, c)}]_vars
  /\ [](\A i \in ConnInsts, c \in AsyncCommands :
          (/\ pc[ProcOf[i]] = "idle"
           /\ SshProcess(i, c) \notin pending
           /\ Cardinality(pending) < MaxPending)
          => ENABLED ExecuteCommandAsync(i, c))
\* A command was launched from an instance without a session inside the
\* cool-down window, and has not yet run.
C25_Witness ==
  /\ result.how = "launched"
  /\ _ssh[result.inst] = "None"
  /\ InCoolDown(result.inst)
  /\ SshProcess(result.inst, [cmd |-> "rm", path |-> OriginalPath]) \in pending
  /\ Exists(OriginalPath)

\* ------------------------------------------- store root properties
\* C26: the full path an operation gives to the server is the store root
\* joined with the argument, and it lies inside the store root, whatever the
\* argument.
C26_RootConfinement ==
  \A p \in Procs :
    pc[p] = "command"
    => /\ op[p].full_path = FullPath(op[p].kind, op[p].filename)
       /\ InsideRoot(op[p].full_path)

\* ------------------------------------------- local move_to properties
\* C27: of the subprocesses LocalDataAccess.move_to starts for a source
\* file that exists, the copy runs when the destination directory has been
\* created, and the removal of the source runs when no copy of that source
\* is still to run.
C27_OrderedSteps ==
  [][\A c \in pending :
       (pending' = pending \ {c} /\ LocalRun(c))
       => /\ (c.cmd = "cp" /\ c.src \in DOMAIN lfs) => c.dest.dir \in ldirs
          /\ (c.cmd = "rm" /\ c.src \in DOMAIN lfs) =>
               \A d \in pending : ~(d.cmd = "cp" /\ d.src = c.src)]_vars

\* ------------------------------------------- close properties
\* C28: close() on an instance that never connected makes no handshake
\* attempt, leaves _last_attempt as it was, does not end in a connection
\* error, and leaves self._ssh None.
C28_CloseNeverConnected ==
  [][\A i \in Insts :
       (_ssh[i] = "None" /\ handshakes[i] = 0 /\ Starts(i) /\ Close(i))
       => /\ handshakes' = handshakes
          /\ _last_attempt' = _last_attempt
          /\ result'.how \notin ConnectionErrors
          /\ _ssh'[i] = "None"]_vars

\* ------------------------------------------- progress reporting properties
\* C29: each call of show with a count not below the last one gives the bar
\* the count minus the count of the call before (minus 0 for the first), 0
\* when the count is unchanged; and after every call the deltas given to
\* the bar so far add up to the count of the last call.
C29_DeltasOnly ==
  /\ [](\A p \in Procs : pc[p] = "transfer" => op[p].bar_n = op[p].last)
  /\ [][\A p \in Procs :
          (pc[p] = "transfer" /\ pc'[p] = "transfer")
          => /\ op'[p].delta = op'[p].last - op[p].last
             /\ op'[p].last = op[p].last => op'[p].delta = 0
             /\ op'[p].bar_n = op[p].bar_n + op'[p].delta]_vars
\* After several increasing counts, a callback with an unchanged count has
\* given the bar a delta of 0.
C29_Witness ==
  /\ pc[Caller] = "transfer"
  /\ op[Caller].delta = 0
  /\ op[Caller].last > 2
  /\ op[Caller].last < op[Caller].output
  /\ op[Caller].bar_n = op[Caller].last

\* ------------------------------------------- backup properties
\* C30: the rename a push commits leaves the content the final name held
\* just before it at the backup path of the final name, and when a push
\* that renamed returns without error the backup path still holds the
\* content whose digest the command read at the final name.
C30_PreviousVersionKept ==
  /\ [][\A p \in Procs :
          (pc[p] = "compare" /\ op'[p].renamed /\ Exists(op[p].original)
             /\ PushCompare(p))
          => ContentAfter(BackupPath(op[p].original)) = ContentAt(op[p].original)]_vars
  /\ [][\A p \in Procs :
          (pc[p] = "unlock" /\ op[p].renamed /\ PushReturn(p)
             /\ result'.how = "ok")
          => /\ BackupPath(op[p].original) \in DOMAIN fs'
             /\ Sha1sumLine(ContentAfter(BackupPath(op[p].original)),
                            op[p].original) = op[p].curr]_vars
\* A push has returned without error, the final name holds new content and
\* the backup holds the content the store started with.
C30_Witness ==
  /\ result.how = "ok"
  /\ \A p \in Procs : pc[p] = "idle"
  /\ ContentAt(OriginalPath) = 2
  /\ ContentAt(BackupPath(OriginalPath)) = InitialContent

====
